---- MODULE Spec2Model ----
(***************************************************************************)
(* Model of the network actor of crates/network/src/network_actor.rs:     *)
(* the host registry, the id allocator, the caller-facing operations and  *)
(* the event handlers of Network::on, run on a discrete-event queue.      *)
(***************************************************************************)
EXTENDS Integers, Sequences, FiniteSets, TLC

\* ---------------------------------------------------------------- bounds
\* total number of send_msg / send_event / transfer_data calls in a run
MaxOps == 2
\* latency() of the configured network model ranges over 0..MaxLatency
MaxLatency == 1
\* transfer sizes range over 0..MaxSize
MaxSize == 1

\* ------------------------------------------------------------- universe
NETWORK_ID == "net"
Actors == {"A", "B"}
\* host names in their String order (the key order of the BTreeMap)
HostNames == <<"H1", "H2">>
Hosts == {HostNames[i] : i \in 1..Len(HostNames)}
HostRank(h) == CHOOSE i \in 1..Len(HostNames) : HostNames[i] = h
Payloads == {"ping"}
\* the actors whose handlers ask for transfers, and the actors data is moved from
Callers == {"A"}
Sources == {"A"}

VARIABLES
    hosts,          \* Network.hosts: the keys of the BTreeMap, in key order
    actor_hosts,    \* Network.actor_hosts: HashMap ActorId -> host name
    id_counter,     \* Network.id_counter
    network_model,  \* the NetworkModel behind Network.network_model
    time,           \* the simulation clock
    queue,          \* the pending events of the simulation, in firing order
    setup,          \* history: the registration calls made so far
    calls,          \* history: the caller-facing calls made so far
    log             \* history: handler runs, model hooks, emitted and received events

vars == <<hosts, actor_hosts, id_counter, network_model, time, queue, setup, calls, log>>

Range(s) == {s[i] : i \in 1..Len(s)}

\* ------------------------------------------------------------- registry
\* BTreeMap::insert on the key sequence: an existing key keeps its place
BTreeInsert(keys, k) ==
    IF k \in Range(keys) THEN keys
    ELSE LET n == Cardinality({i \in 1..Len(keys) : HostRank(keys[i]) < HostRank(k)})
         IN SubSeq(keys, 1, n) \o <<k>> \o SubSeq(keys, n + 1, Len(keys))

\* variant of add_host: the host list is appended to, not keyed
add_host_push(hs, host_id) == Append(hs, host_id)

add_host(hs, host_id) == BTreeInsert(hs, host_id)

\* variant of set_actor_host: a binding is only made for an actor without one
set_actor_host_keep(ah, actor_id, host_id) ==
    IF actor_id \in DOMAIN ah THEN ah ELSE (actor_id :> host_id) @@ ah

set_actor_host(ah, actor_id, host_id) == (actor_id :> host_id) @@ ah

\* Option<&String>: <<>> is None, <<h>> is Some(h)
get_actor_host(ah, actor_id) ==
    IF actor_id \in DOMAIN ah THEN <<ah[actor_id]>> ELSE <<>>

\* variant of check_same_host: the two Options are compared, so None equals None
check_same_host_options(ah, actor1_id, actor2_id) ==
    get_actor_host(ah, actor1_id) = get_actor_host(ah, actor2_id)

check_same_host(ah, actor1_id, actor2_id) ==
    LET actor1_host == get_actor_host(ah, actor1_id)
        actor2_host == get_actor_host(ah, actor2_id)
    IN Len(actor1_host) = 1 /\ Len(actor2_host) = 1 /\ actor1_host[1] = actor2_host[1]

get_hosts(hs) == hs

\* --------------------------------------------------------- id allocator
\* the value id_counter holds after fetch_add(n); the call returns the old one
\* variant of fetch_add: the counter is read but not advanced
fetch_add_load(counter, n) == counter

fetch_add(counter, n) == counter + n

\* -------------------------------------------------- simulation substrate
Event(type, from, dest, t, body) ==
    [type |-> type, from |-> from, dest |-> dest, time |-> t, body |-> body]

\* events fire by time; events of equal time fire in the order they were added
Enqueue(q, e) ==
    LET n == Cardinality({i \in 1..Len(q) : q[i].time <= e.time})
    IN SubSeq(q, 1, n) \o <<e>> \o SubSeq(q, n + 1, Len(q))

\* ActorContext::emit of the actor ctxid at time now
emit(q, type, body, ctxid, dest, now, delay) ==
    Enqueue(q, Event(type, ctxid, dest, now + delay, body))

emit_now(q, type, body, ctxid, dest, now) == emit(q, type, body, ctxid, dest, now, 0)

\* Simulation::add_event_now
add_event_now(q, type, body, src, dest, now) ==
    Enqueue(q, Event(type, src, dest, now, body))

\* --------------------------------------------------------- network model
latency(model) == model.latency

\* time the model takes to move size units
TransferTime(size) == size

\* NetworkModel::send_data: the model takes the transfer in and, unless it
\* loses it, schedules its DataReceive for the network actor
send_data_model(model, data) == [model EXCEPT !.active = @ \cup {data.id}]

send_data_events(q, data, now, arrives) ==
    IF arrives THEN emit(q, "DataReceive", data, NETWORK_ID, NETWORK_ID, now, TransferTime(data.size))
    ELSE q

\* NetworkModel::receive_data
receive_data_model(model, data) == [model EXCEPT !.active = @ \ {data.id}]

\* -------------------------------------------------------------- records
Message(id, src, dest, data) == [id |-> id, src |-> src, dest |-> dest, data |-> data]

Data(id, src, dest, size, notification_dest) ==
    [id |-> id, src |-> src, dest |-> dest, size |-> size,
     notification_dest |-> notification_dest]

\* ------------------------------------------------------------- history
\* kind: "on" a handler of the network actor ran, "call" a model hook was
\* called, "emit" an event left for another actor, "recv" an actor got an event
LogEntry(kind, what, to, t, body) ==
    [kind |-> kind, what |-> what, to |-> to, time |-> t, body |-> body]

\* both actors are bound and to the same host, read off the bindings
BoundTogether(a, b) ==
    a \in DOMAIN actor_hosts /\ b \in DOMAIN actor_hosts /\ actor_hosts[a] = actor_hosts[b]

Call(op, id, caller, src, dest, rec) ==
    [op |-> op, id |-> id, caller |-> caller, src |-> src, dest |-> dest,
     time |-> time, rec |-> rec, colocated |-> BoundTogether(src, dest)]

\* ----------------------------------------------------------------- Init
Init ==
    /\ hosts = <<>>
    /\ actor_hosts = [a \in {} |-> "H1"]
    /\ id_counter = 1
    /\ network_model \in [latency : 0..MaxLatency, active : {{}}]
    /\ time = 0
    /\ queue = <<>>
    /\ setup = [added |-> {}, bound |-> [a \in {} |-> "H1"]]
    /\ calls = <<>>
    /\ log = <<>>

\* ------------------------------------------------ registration operations
\* the registry is filled by the simulation's setup code, before the first
\* producer call
AddHost ==
    \E h \in Hosts :
        /\ calls = <<>>
        /\ hosts' = add_host(hosts, h)
        /\ setup' = [setup EXCEPT !.added = @ \cup {h}]
        /\ UNCHANGED <<actor_hosts, id_counter, network_model, time, queue, calls, log>>

SetActorHost ==
    \E a \in Actors, h \in Hosts :
        /\ calls = <<>>
        /\ actor_hosts' = set_actor_host(actor_hosts, a, h)
        /\ setup' = [setup EXCEPT !.bound = (a :> h) @@ @]
        /\ UNCHANGED <<hosts, id_counter, network_model, time, queue, calls, log>>

\* ---------------------------------------------------- producer operations
\* variant of SendMsg: the delivery is scheduled for dest by the call itself
SendMsg_direct ==
    \E message \in Payloads, dest \in Actors, ctxid \in Actors :
        /\ Len(calls) < MaxOps
        /\ LET msg_id == id_counter
               msg == Message(msg_id, ctxid, dest, message)
           IN /\ id_counter' = fetch_add(id_counter, 1)
              /\ queue' = emit(queue, "MessageDelivery", msg, ctxid, dest, time,
                               latency(network_model))
              /\ calls' = Append(calls, Call("send_msg", msg_id, ctxid, ctxid, dest,
                                             Message(msg_id, ctxid, dest, message)))
        /\ UNCHANGED <<setup, hosts, actor_hosts, network_model, time, log>>

SendMsg ==
    \E message \in Payloads, dest \in Actors, ctxid \in Actors :
        /\ Len(calls) < MaxOps
        /\ LET msg_id == id_counter
               msg == Message(msg_id, ctxid, dest, message)
           IN /\ id_counter' = fetch_add(id_counter, 1)
              /\ queue' = emit_now(queue, "MessageSend", msg, ctxid, NETWORK_ID, time)
              /\ calls' = Append(calls, Call("send_msg", msg_id, ctxid, ctxid, dest,
                                             Message(msg_id, ctxid, dest, message)))
        /\ UNCHANGED <<setup, hosts, actor_hosts, network_model, time, log>>

\* variant of SendEvent: the same-host check is left out, as in MessageSend
\* variant of SendEvent: the call takes an id from the counter
SendEvent_counted ==
    \E dest \in Actors, ctxid \in Actors :
        /\ Len(calls) < MaxOps
        /\ LET event == [tag |-> Len(calls) + 1]
           IN /\ id_counter' = fetch_add(id_counter, 1)
              /\ queue' = IF ~check_same_host(actor_hosts, ctxid, dest)
                          THEN emit(queue, "AppEvent", event, ctxid, dest, time,
                                    latency(network_model))
                          ELSE emit(queue, "AppEvent", event, ctxid, dest, time, 0)
              /\ calls' = Append(calls, Call("send_event", 0, ctxid, ctxid, dest, event))
        /\ UNCHANGED <<setup, hosts, actor_hosts, network_model, time, log>>

SendEvent_unchecked ==
    \E dest \in Actors, ctxid \in Actors :
        /\ Len(calls) < MaxOps
        /\ LET event == [tag |-> Len(calls) + 1]
           IN /\ queue' = emit(queue, "AppEvent", event, ctxid, dest, time,
                               latency(network_model))
              /\ calls' = Append(calls, Call("send_event", 0, ctxid, ctxid, dest, event))
        /\ UNCHANGED <<setup, hosts, actor_hosts, id_counter, network_model, time, log>>

SendEvent ==
    \E dest \in Actors, ctxid \in Actors :
        /\ Len(calls) < MaxOps
        /\ LET event == [tag |-> Len(calls) + 1]
           IN /\ queue' = IF ~check_same_host(actor_hosts, ctxid, dest)
                          THEN emit(queue, "AppEvent", event, ctxid, dest, time,
                                    latency(network_model))
                          ELSE emit(queue, "AppEvent", event, ctxid, dest, time, 0)
              /\ calls' = Append(calls, Call("send_event", 0, ctxid, ctxid, dest, event))
        /\ UNCHANGED <<setup, hosts, actor_hosts, id_counter, network_model, time, log>>

SendMsgFromSim ==
    \E message \in Payloads, src \in Actors, dest \in Actors :
        /\ Len(calls) < MaxOps
        /\ LET msg_id == id_counter
               msg == Message(msg_id, src, dest, message)
           IN /\ id_counter' = fetch_add(id_counter, 1)
              /\ queue' = add_event_now(queue, "MessageSend", msg, src, NETWORK_ID, time)
              /\ calls' = Append(calls, Call("send_msg_from_sim", msg_id, src, src, dest,
                                             Message(msg_id, src, dest, message)))
        /\ UNCHANGED <<setup, hosts, actor_hosts, network_model, time, log>>

TransferData ==
    \E src \in Sources, size \in 0..MaxSize, notification_dest \in Actors,
       ctxid \in Callers : \E dest \in Actors \ {src} :
        /\ Len(calls) < MaxOps
        /\ LET data_id == id_counter
               data == Data(data_id, src, dest, size, notification_dest)
           IN /\ id_counter' = fetch_add(id_counter, 1)
              /\ queue' = emit_now(queue, "DataTransferRequest", data, ctxid, NETWORK_ID, time)
              /\ calls' = Append(calls, Call("transfer_data", data_id, ctxid, src, dest,
                                             Data(data_id, src, dest, size, notification_dest)))
        /\ UNCHANGED <<setup, hosts, actor_hosts, network_model, time, log>>

\* variant of TransferDataFromSim: the request is injected one latency() late
TransferDataFromSim_late ==
    \E src \in Sources, size \in 0..MaxSize, notification_dest \in Actors :
      \E dest \in Actors \ {src} :
        /\ Len(calls) < MaxOps
        /\ LET data_id == id_counter
               data == Data(data_id, src, dest, size, notification_dest)
           IN /\ id_counter' = fetch_add(id_counter, 1)
              /\ queue' = add_event_now(queue, "DataTransferRequest", data,
                                        NETWORK_ID, NETWORK_ID,
                                        time + latency(network_model))
              /\ calls' = Append(calls, Call("transfer_data_from_sim", data_id, NETWORK_ID, src, dest,
                                             Data(data_id, src, dest, size, notification_dest)))
        /\ UNCHANGED <<setup, hosts, actor_hosts, network_model, time, log>>

TransferDataFromSim ==
    \E src \in Sources, size \in 0..MaxSize, notification_dest \in Actors :
      \E dest \in Actors \ {src} :
        /\ Len(calls) < MaxOps
        /\ LET data_id == id_counter
               data == Data(data_id, src, dest, size, notification_dest)
           IN /\ id_counter' = fetch_add(id_counter, 1)
              /\ queue' = add_event_now(queue, "DataTransferRequest", data,
                                        NETWORK_ID, NETWORK_ID, time)
              /\ calls' = Append(calls, Call("transfer_data_from_sim", data_id, NETWORK_ID, src, dest,
                                             Data(data_id, src, dest, size, notification_dest)))
        /\ UNCHANGED <<setup, hosts, actor_hosts, network_model, time, log>>

\* ------------------------------------------- handlers of the network actor
\* the simulation takes the next event off the queue for the actor dest
Next_event(type, dest) ==
    /\ queue # <<>>
    /\ Head(queue).dest = dest
    /\ Head(queue).type = type

\* variant of OnMessageSend: the delay of the hop depends on the message id
\* variant of OnMessageSend: the handler takes an id from the counter
OnMessageSend_counted ==
    /\ Next_event("MessageSend", NETWORK_ID)
    /\ LET now == Head(queue).time
           message == Head(queue).body
       IN /\ time' = now
          /\ id_counter' = fetch_add(id_counter, 1)
          /\ queue' = emit(Tail(queue), "MessageReceive", message, NETWORK_ID,
                           NETWORK_ID, now, latency(network_model))
          /\ log' = Append(log, LogEntry("on", "MessageSend", NETWORK_ID, now, message))
    /\ UNCHANGED <<setup, hosts, actor_hosts, network_model, calls>>

OnMessageSend_by_id ==
    /\ Next_event("MessageSend", NETWORK_ID)
    /\ LET now == Head(queue).time
           message == Head(queue).body
       IN /\ time' = now
          /\ queue' = emit(Tail(queue), "MessageReceive", message, NETWORK_ID, NETWORK_ID,
                           now, latency(network_model) * (1 + (message.id % 2)))
          /\ log' = Append(log, LogEntry("on", "MessageSend", NETWORK_ID, now, message))
    /\ UNCHANGED <<setup, hosts, actor_hosts, id_counter, network_model, calls>>

OnMessageSend ==
    /\ Next_event("MessageSend", NETWORK_ID)
    /\ LET now == Head(queue).time
           message == Head(queue).body
       IN /\ time' = now
          /\ queue' = emit(Tail(queue), "MessageReceive", message, NETWORK_ID, NETWORK_ID,
                           now, latency(network_model))
          /\ log' = Append(log, LogEntry("on", "MessageSend", NETWORK_ID, now, message))
    /\ UNCHANGED <<setup, hosts, actor_hosts, id_counter, network_model, calls>>

\* variant of OnMessageReceive: the delivery hop is charged latency() as well
\* variant of OnMessageReceive: the delivery goes back to the sender
\* variant of OnMessageReceive: the arrival is handled and nothing is emitted
OnMessageReceive_silent ==
    /\ Next_event("MessageReceive", NETWORK_ID)
    /\ LET now == Head(queue).time
           message == Head(queue).body
       IN /\ time' = now
          /\ queue' = Tail(queue)
          /\ log' = Append(log, LogEntry("on", "MessageReceive", NETWORK_ID, now, message))
    /\ UNCHANGED <<setup, hosts, actor_hosts, id_counter, network_model, calls>>

OnMessageReceive_to_src ==
    /\ Next_event("MessageReceive", NETWORK_ID)
    /\ LET now == Head(queue).time
           message == Head(queue).body
       IN /\ time' = now
          /\ queue' = emit_now(Tail(queue), "MessageDelivery", message, NETWORK_ID,
                               message.src, now)
          /\ log' = log \o <<LogEntry("on", "MessageReceive", NETWORK_ID, now, message),
                             LogEntry("emit", "MessageDelivery", message.src, now, message)>>
    /\ UNCHANGED <<setup, hosts, actor_hosts, id_counter, network_model, calls>>

OnMessageReceive_charged ==
    /\ Next_event("MessageReceive", NETWORK_ID)
    /\ LET now == Head(queue).time
           message == Head(queue).body
       IN /\ time' = now
          /\ queue' = emit(Tail(queue), "MessageDelivery", message, NETWORK_ID,
                           message.dest, now, latency(network_model))
          /\ log' = log \o <<LogEntry("on", "MessageReceive", NETWORK_ID, now, message),
                             LogEntry("emit", "MessageDelivery", message.dest, now, message)>>
    /\ UNCHANGED <<setup, hosts, actor_hosts, id_counter, network_model, calls>>

OnMessageReceive ==
    /\ Next_event("MessageReceive", NETWORK_ID)
    /\ LET now == Head(queue).time
           message == Head(queue).body
       IN /\ time' = now
          /\ queue' = emit_now(Tail(queue), "MessageDelivery", message, NETWORK_ID,
                               message.dest, now)
          /\ log' = log \o <<LogEntry("on", "MessageReceive", NETWORK_ID, now, message),
                             LogEntry("emit", "MessageDelivery", message.dest, now, message)>>
    /\ UNCHANGED <<setup, hosts, actor_hosts, id_counter, network_model, calls>>

\* variant of OnDataTransferRequest: StartDataTransfer is emitted with emit_now
\* variant of OnDataTransferRequest: no latency() between actors on the same host
OnDataTransferRequest_same_host ==
    /\ Next_event("DataTransferRequest", NETWORK_ID)
    /\ LET now == Head(queue).time
           data == Head(queue).body
       IN /\ time' = now
          /\ queue' = IF ~check_same_host(actor_hosts, data.src, data.dest)
                      THEN emit(Tail(queue), "StartDataTransfer", data, NETWORK_ID,
                                NETWORK_ID, now, latency(network_model))
                      ELSE emit(Tail(queue), "StartDataTransfer", data, NETWORK_ID,
                                NETWORK_ID, now, 0)
          /\ log' = Append(log, LogEntry("on", "DataTransferRequest", NETWORK_ID, now, data))
    /\ UNCHANGED <<setup, hosts, actor_hosts, id_counter, network_model, calls>>

OnDataTransferRequest_now ==
    /\ Next_event("DataTransferRequest", NETWORK_ID)
    /\ LET now == Head(queue).time
           data == Head(queue).body
       IN /\ time' = now
          /\ queue' = emit_now(Tail(queue), "StartDataTransfer", data, NETWORK_ID,
                               NETWORK_ID, now)
          /\ log' = Append(log, LogEntry("on", "DataTransferRequest", NETWORK_ID, now, data))
    /\ UNCHANGED <<setup, hosts, actor_hosts, id_counter, network_model, calls>>

OnDataTransferRequest ==
    /\ Next_event("DataTransferRequest", NETWORK_ID)
    /\ LET now == Head(queue).time
           data == Head(queue).body
       IN /\ time' = now
          /\ queue' = emit(Tail(queue), "StartDataTransfer", data, NETWORK_ID, NETWORK_ID,
                           now, latency(network_model))
          /\ log' = Append(log, LogEntry("on", "DataTransferRequest", NETWORK_ID, now, data))
    /\ UNCHANGED <<setup, hosts, actor_hosts, id_counter, network_model, calls>>

\* variant of OnStartDataTransfer: an empty transfer is completed on the spot
\* variant of OnStartDataTransfer: the actor also schedules the completion itself,
\* in case the model never reports the arrival
OnStartDataTransfer_watchdog ==
    /\ Next_event("StartDataTransfer", NETWORK_ID)
    /\ \E arrives \in BOOLEAN :
        LET now == Head(queue).time
            data == Head(queue).body
        IN /\ time' = now
           /\ network_model' = send_data_model(network_model, data)
           /\ queue' = emit(send_data_events(Tail(queue), data, now, arrives),
                            "DataTransferCompleted", data, NETWORK_ID,
                            data.notification_dest, now, TransferTime(data.size) + 1)
           /\ log' = log \o <<LogEntry("on", "StartDataTransfer", NETWORK_ID, now, data),
                              LogEntry("call", "send_data", "model", now, data),
                              LogEntry("emit", "DataTransferCompleted",
                                       data.notification_dest, now, data)>>
    /\ UNCHANGED <<setup, hosts, actor_hosts, id_counter, calls>>

OnStartDataTransfer_skip_empty ==
    /\ Next_event("StartDataTransfer", NETWORK_ID)
    /\ \E arrives \in BOOLEAN :
        LET now == Head(queue).time
            data == Head(queue).body
        IN /\ time' = now
           /\ IF data.size = 0
              THEN /\ network_model' = network_model
                   /\ queue' = emit_now(Tail(queue), "DataTransferCompleted", data,
                                        NETWORK_ID, data.notification_dest, now)
                   /\ log' = log \o <<LogEntry("on", "StartDataTransfer", NETWORK_ID, now, data),
                                      LogEntry("emit", "DataTransferCompleted",
                                               data.notification_dest, now, data)>>
              ELSE /\ network_model' = send_data_model(network_model, data)
                   /\ queue' = send_data_events(Tail(queue), data, now, arrives)
                   /\ log' = log \o <<LogEntry("on", "StartDataTransfer", NETWORK_ID, now, data),
                                      LogEntry("call", "send_data", "model", now, data)>>
    /\ UNCHANGED <<setup, hosts, actor_hosts, id_counter, calls>>

OnStartDataTransfer ==
    /\ Next_event("StartDataTransfer", NETWORK_ID)
    /\ \E arrives \in BOOLEAN :
        LET now == Head(queue).time
            data == Head(queue).body
        IN /\ time' = now
           /\ network_model' = send_data_model(network_model, data)
           /\ queue' = send_data_events(Tail(queue), data, now, arrives)
           /\ log' = log \o <<LogEntry("on", "StartDataTransfer", NETWORK_ID, now, data),
                              LogEntry("call", "send_data", "model", now, data)>>
    /\ UNCHANGED <<setup, hosts, actor_hosts, id_counter, calls>>

\* variant of OnDataReceive: the completion carries a record with its size cleared
OnDataReceive_cleared ==
    /\ Next_event("DataReceive", NETWORK_ID)
    /\ LET now == Head(queue).time
           data == Head(queue).body
           done == [data EXCEPT !.size = 0]
       IN /\ time' = now
          /\ network_model' = receive_data_model(network_model, data)
          /\ queue' = emit_now(Tail(queue), "DataTransferCompleted", done, NETWORK_ID,
                               data.notification_dest, now)
          /\ log' = log \o <<LogEntry("on", "DataReceive", NETWORK_ID, now, data),
                             LogEntry("call", "receive_data", "model", now, data),
                             LogEntry("emit", "DataTransferCompleted",
                                      data.notification_dest, now, done)>>
    /\ UNCHANGED <<setup, hosts, actor_hosts, id_counter, calls>>

\* variant of OnDataReceive: the completion goes to the data destination
OnDataReceive_to_dest ==
    /\ Next_event("DataReceive", NETWORK_ID)
    /\ LET now == Head(queue).time
           data == Head(queue).body
       IN /\ time' = now
          /\ network_model' = receive_data_model(network_model, data)
          /\ queue' = emit_now(Tail(queue), "DataTransferCompleted", data, NETWORK_ID,
                               data.dest, now)
          /\ log' = log \o <<LogEntry("on", "DataReceive", NETWORK_ID, now, data),
                             LogEntry("call", "receive_data", "model", now, data),
                             LogEntry("emit", "DataTransferCompleted", data.dest, now, data)>>
    /\ UNCHANGED <<setup, hosts, actor_hosts, id_counter, calls>>

OnDataReceive ==
    /\ Next_event("DataReceive", NETWORK_ID)
    /\ LET now == Head(queue).time
           data == Head(queue).body
       IN /\ time' = now
          /\ network_model' = receive_data_model(network_model, data)
          /\ queue' = emit_now(Tail(queue), "DataTransferCompleted", data, NETWORK_ID,
                               data.notification_dest, now)
          /\ log' = log \o <<LogEntry("on", "DataReceive", NETWORK_ID, now, data),
                             LogEntry("call", "receive_data", "model", now, data),
                             LogEntry("emit", "DataTransferCompleted",
                                      data.notification_dest, now, data)>>
    /\ UNCHANGED <<setup, hosts, actor_hosts, id_counter, calls>>

\* an actor other than the network actor gets the event addressed to it
ActorReceive ==
    /\ queue # <<>>
    /\ Head(queue).dest \in Actors
    /\ LET ev == Head(queue)
       IN /\ time' = ev.time
          /\ queue' = Tail(queue)
          /\ log' = Append(log, LogEntry("recv", ev.type, ev.dest, ev.time, ev.body))
    /\ UNCHANGED <<setup, hosts, actor_hosts, id_counter, network_model, calls>>

Next ==
    \/ AddHost
    \/ SetActorHost
    \/ SendMsg
    \/ SendEvent
    \/ SendMsgFromSim
    \/ TransferData
    \/ TransferDataFromSim
    \/ OnMessageSend
    \/ OnMessageReceive
    \/ OnDataTransferRequest
    \/ OnStartDataTransfer
    \/ OnDataReceive
    \/ ActorReceive

Spec == Init /\ [][Next]_vars

\* the registry and send_event alone: a run whose producers only call send_event
NextRegistry ==
    \/ AddHost
    \/ SetActorHost
    \/ SendEvent
    \/ ActorReceive

SpecRegistry == Init /\ [][NextRegistry]_vars

\* the message sub-machine alone: a run whose producers only send messages
NextMsg ==
    \/ AddHost
    \/ SetActorHost
    \/ SendMsg
    \/ SendMsgFromSim
    \/ OnMessageSend
    \/ OnMessageReceive
    \/ ActorReceive

SpecMsg == Init /\ [][NextMsg]_vars

\* the transfer sub-machine alone: a run whose producers only ask for transfers
NextData ==
    \/ TransferData
    \/ TransferDataFromSim
    \/ OnDataTransferRequest
    \/ OnStartDataTransfer
    \/ OnDataReceive
    \/ ActorReceive

SpecData == Init /\ [][NextData]_vars

\* every producer operation and handler, on the registry Network::new leaves
NextNet ==
    \/ SendMsg
    \/ SendEvent
    \/ SendMsgFromSim
    \/ TransferData
    \/ TransferDataFromSim
    \/ OnMessageSend
    \/ OnMessageReceive
    \/ OnDataTransferRequest
    \/ OnStartDataTransfer
    \/ OnDataReceive
    \/ ActorReceive

SpecNet == Init /\ [][NextNet]_vars

\* one step of the simulation: the earliest pending event goes to its receiver
Step ==
    \/ OnMessageSend
    \/ OnMessageReceive
    \/ OnDataTransferRequest
    \/ OnStartDataTransfer
    \/ OnDataReceive
    \/ ActorReceive

\* messages and transfers asked for by actors, and their lifecycles
NextLife ==
    \/ SendMsg
    \/ TransferData
    \/ Step

SpecLife == Init /\ [][NextLife]_vars

\* messages and transfers asked for by actors and by the simulation side
NextBothSides ==
    \/ SendMsg
    \/ SendMsgFromSim
    \/ TransferData
    \/ TransferDataFromSim
    \/ Step

SpecBothSides == Init /\ [][NextBothSides]_vars

\* the simulation keeps stepping while an event is pending
FairSpecLife == Init /\ [][NextLife]_vars /\ WF_vars(Step)

\* transfers asked for by actors that were bound to hosts
NextBoundData ==
    \/ SetActorHost
    \/ TransferData
    \/ OnDataTransferRequest
    \/ OnStartDataTransfer
    \/ OnDataReceive
    \/ ActorReceive

SpecBoundData == Init /\ [][NextBoundData]_vars

\* ------------------------------------------------------ reading the history
MsgOps == {"send_msg", "send_msg_from_sim"}
DataOps == {"transfer_data", "transfer_data_from_sim"}
MsgWhats == {"MessageSend", "MessageReceive", "MessageDelivery"}
DataWhats == {"DataTransferRequest", "StartDataTransfer", "send_data", "DataReceive",
              "receive_data", "DataTransferCompleted"}

MsgCalls == {i \in 1..Len(calls) : calls[i].op \in MsgOps}
DataCalls == {i \in 1..Len(calls) : calls[i].op \in DataOps}
EventCalls == {i \in 1..Len(calls) : calls[i].op = "send_event"}

\* positions of the log entries of one kind about the record id
LogOf(kind, what, id) ==
    {i \in 1..Len(log) : log[i].kind = kind /\ log[i].what = what /\ log[i].body.id = id}

\* positions of the pending events of one type about the record id
QueueOf(type, id) ==
    {i \in 1..Len(queue) : queue[i].type = type /\ queue[i].body.id = id}

\* the log entries about the transfer id, as <<kind, what>> pairs in log order
DataTrace(id) ==
    LET mine == SelectSeq(log, LAMBDA e : e.what \in DataWhats /\ e.body.id = id)
    IN [i \in 1..Len(mine) |-> <<mine[i].kind, mine[i].what>>]

IsPrefix(s, t) == Len(s) <= Len(t) /\ SubSeq(t, 1, Len(s)) = s

\* ------------------------------------------------------------------ claims

\* C1: a message between two actors bound to the same host reaches its
\* destination (MessageDelivery) at the simulated time at which it was sent.
C1_SameHostZeroDelay ==
    \A i \in MsgCalls :
        calls[i].colocated =>
            \A j \in LogOf("recv", "MessageDelivery", calls[i].id) :
                log[j].time = calls[i].time

\* C2: a message between actors on different hosts, or with an unbound actor,
\* is handled as MessageSend at its send time, as MessageReceive one latency()
\* later, and its MessageDelivery is emitted and received at that same time.
C2_RemoteOneLatency ==
    \A i \in MsgCalls :
        ~calls[i].colocated =>
            LET id == calls[i].id
                sent == calls[i].time
                arrival == sent + latency(network_model)
            IN /\ \A j \in LogOf("on", "MessageSend", id) : log[j].time = sent
               /\ \A j \in LogOf("on", "MessageReceive", id) : log[j].time = arrival
               /\ \A j \in LogOf("emit", "MessageDelivery", id) : log[j].time = arrival
               /\ \A j \in LogOf("recv", "MessageDelivery", id) : log[j].time = arrival
               /\ \A j \in QueueOf("MessageDelivery", id) : queue[j].time = arrival

\* a message from A on H1 to B on H2 was delivered, with a latency above zero
C2_Witness ==
    /\ latency(network_model) > 0
    /\ \E i \in MsgCalls :
        /\ calls[i].src = "A" /\ calls[i].dest = "B"
        /\ ~calls[i].colocated
        /\ get_actor_host(actor_hosts, "A") = <<"H1">>
        /\ get_actor_host(actor_hosts, "B") = <<"H2">>
        /\ \E j \in LogOf("recv", "MessageDelivery", calls[i].id) :
            log[j].to = "B" /\ log[j].time = calls[i].time + latency(network_model)

\* C3: a transfer's DataTransferCompleted is emitted once per processed arrival
\* (DataReceive), so exactly once when the model causes one arrival, never more
\* than once, and every copy of it is addressed to the notification_dest of the
\* transfer_data call.
C3_OneCompletionToNotificationDest ==
    \A i \in DataCalls :
        LET id == calls[i].id
            arrived == LogOf("on", "DataReceive", id)
            emitted == LogOf("emit", "DataTransferCompleted", id)
            received == LogOf("recv", "DataTransferCompleted", id)
            pending == QueueOf("DataTransferCompleted", id)
        IN /\ Cardinality(emitted) = Cardinality(arrived)
           /\ Cardinality(emitted) <= 1
           /\ Cardinality(received) + Cardinality(pending) = Cardinality(emitted)
           /\ \A j \in emitted \cup received : log[j].to = calls[i].rec.notification_dest
           /\ \A j \in pending : queue[j].dest = calls[i].rec.notification_dest

\* a transfer from A to B with notification_dest A was completed at A, not at B
C3_Witness ==
    \E i \in DataCalls :
        /\ calls[i].rec.src = "A" /\ calls[i].rec.dest = "B"
        /\ calls[i].rec.notification_dest = "A"
        /\ Cardinality(LogOf("on", "DataReceive", calls[i].id)) = 1
        /\ \E j \in LogOf("recv", "DataTransferCompleted", calls[i].id) : log[j].to = "A"
        /\ queue = <<>>

\* C4: the ids returned by send_msg, send_msg_from_sim, transfer_data and
\* transfer_data_from_sim grow strictly in call order, so they are pairwise
\* distinct across messages and transfers.
C4_IdsStrictlyIncreasing ==
    \A i \in MsgCalls \cup DataCalls : \A j \in MsgCalls \cup DataCalls :
        i < j => calls[i].id < calls[j].id

\* a message and a transfer were both given an id
C4_Witness ==
    /\ Len(calls) >= 2
    /\ calls[1].op = "transfer_data" /\ calls[2].op = "send_msg_from_sim"
    /\ calls[1].id < calls[2].id

\* C5: check_same_host(a, b) is true exactly when a and b are both bound and
\* bound to the same host name.
C5_CheckSameHost ==
    \A a \in Actors : \A b \in Actors :
        check_same_host(actor_hosts, a, b)
            <=> (/\ a \in DOMAIN actor_hosts
                 /\ b \in DOMAIN actor_hosts
                 /\ actor_hosts[a] = actor_hosts[b])

\* A is bound and B is not: A is on its own host, A and B are not co-located,
\* and neither are B and B
C5_Witness ==
    /\ DOMAIN actor_hosts = {"A"}
    /\ check_same_host(actor_hosts, "A", "A")
    /\ ~check_same_host(actor_hosts, "A", "B")
    /\ ~check_same_host(actor_hosts, "B", "B")

\* C6: a second add_host(h), or a second set_actor_host(a, h), leaves
\* get_hosts, get_actor_host and check_same_host as the first call left them.
C6_RegistrationIdempotent ==
    /\ \A h \in Hosts :
        LET once == add_host(hosts, h)
            twice == add_host(once, h)
        IN get_hosts(twice) = get_hosts(once)
    /\ \A a \in Actors : \A h \in Hosts :
        LET once == set_actor_host(actor_hosts, a, h)
            twice == set_actor_host(once, a, h)
        IN /\ \A x \in Actors : get_actor_host(twice, x) = get_actor_host(once, x)
           /\ \A x \in Actors : \A y \in Actors :
                check_same_host(twice, x, y) = check_same_host(once, x, y)

\* both hosts were added and A and B were bound to H1; adding H1 again and
\* binding A to H1 again change nothing
C6_Witness ==
    /\ get_hosts(hosts) = <<"H1", "H2">>
    /\ get_actor_host(actor_hosts, "A") = <<"H1">>
    /\ get_actor_host(actor_hosts, "B") = <<"H1">>
    /\ add_host(hosts, "H1") = hosts
    /\ set_actor_host(actor_hosts, "A", "H1") = actor_hosts

\* the events send_event call number i put in flight: pending and received
AppPending(i) ==
    {j \in 1..Len(queue) : queue[j].type = "AppEvent" /\ queue[j].body.tag = i}

AppReceived(i) ==
    {j \in 1..Len(log) : log[j].what = "AppEvent" /\ log[j].body.tag = i}

\* C7: send_event puts exactly one event in flight, addressed to dest and never
\* handled by the network actor, due at the call time when caller and dest are
\* bound to the same host and one latency() later in every other case.
C7_SendEventDelay ==
    \A i \in EventCalls :
        LET due == calls[i].time + (IF calls[i].colocated THEN 0 ELSE latency(network_model))
        IN /\ Cardinality(AppPending(i)) + Cardinality(AppReceived(i)) = 1
           /\ \A j \in AppPending(i) :
                /\ queue[j].dest = calls[i].dest
                /\ queue[j].dest # NETWORK_ID
                /\ queue[j].time = due
           /\ \A j \in AppReceived(i) :
                /\ log[j].kind = "recv"
                /\ log[j].to = calls[i].dest
                /\ log[j].time = due

\* with a latency above zero, B got at the call time an event that A sent it
\* while both were bound to H2
C7_Witness ==
    /\ latency(network_model) > 0
    /\ \E i \in EventCalls :
        /\ calls[i].caller = "A" /\ calls[i].dest = "B"
        /\ get_actor_host(actor_hosts, "A") = <<"H2">>
        /\ get_actor_host(actor_hosts, "B") = <<"H2">>
        /\ \E j \in AppReceived(i) : log[j].to = "B" /\ log[j].time = calls[i].time

\* C8: per transfer id, send_data is called once, when StartDataTransfer is
\* handled one latency() after the request; receive_data is called once per
\* handled DataReceive; send_data comes before receive_data, and receive_data
\* before the emission of DataTransferCompleted.
C8_ModelHooks ==
    \A i \in DataCalls :
        LET id == calls[i].id
            begun == LogOf("call", "send_data", id)
            ended == LogOf("call", "receive_data", id)
            waiting == QueueOf("DataTransferRequest", id) \cup QueueOf("StartDataTransfer", id)
        IN /\ Cardinality(begun) + Cardinality(waiting) = 1
           /\ Cardinality(begun) = Cardinality(LogOf("on", "StartDataTransfer", id))
           /\ \A j \in begun : log[j].time = calls[i].time + latency(network_model)
           /\ Cardinality(ended) = Cardinality(LogOf("on", "DataReceive", id))
           /\ \A k \in ended : \E j \in begun : j < k
           /\ \A e \in LogOf("emit", "DataTransferCompleted", id) : \E k \in ended : k < e

\* with a latency above zero, a transfer went through send_data, receive_data
\* and the emission of its completion
C8_Witness ==
    /\ latency(network_model) > 0
    /\ \E i \in DataCalls :
        /\ LogOf("call", "send_data", calls[i].id) # {}
        /\ LogOf("call", "receive_data", calls[i].id) # {}
        /\ LogOf("emit", "DataTransferCompleted", calls[i].id) # {}

\* the stages of a transfer, in order
FullDataTrace ==
    << <<"on", "DataTransferRequest">>, <<"on", "StartDataTransfer">>,
       <<"call", "send_data">>, <<"on", "DataReceive">>, <<"call", "receive_data">>,
       <<"emit", "DataTransferCompleted">>, <<"recv", "DataTransferCompleted">> >>

\* C9: a transfer goes through the same stages in the same order whatever its
\* size, size 0 included: request, start one latency() later, send_data, arrival,
\* receive_data, completion; the completion never comes before the start and
\* the arrival were handled.
C9_ZeroSizeFullLifecycle ==
    \A i \in DataCalls :
        /\ IsPrefix(DataTrace(calls[i].id), FullDataTrace)
        /\ calls[i].rec.size = 0 =>
            \A j \in LogOf("on", "StartDataTransfer", calls[i].id) :
                log[j].time = calls[i].time + latency(network_model)

\* with a latency above zero, a transfer of size 0 went through every stage
C9_Witness ==
    /\ latency(network_model) > 0
    /\ \E i \in DataCalls :
        /\ calls[i].rec.size = 0
        /\ DataTrace(calls[i].id) = FullDataTrace

\* C10: at every stage of a transfer, the record in the event or hook call is the
\* one built by the transfer_data call: the returned id and the src, dest, size and
\* notification_dest given.
C10_RecordUnchanged ==
    \A i \in DataCalls :
        /\ calls[i].rec.id = calls[i].id
        /\ \A j \in 1..Len(log) :
            (log[j].what \in DataWhats /\ log[j].body.id = calls[i].id)
                => log[j].body = calls[i].rec
        /\ \A j \in 1..Len(queue) :
            (queue[j].type \in DataWhats /\ queue[j].body.id = calls[i].id)
                => queue[j].body = calls[i].rec

\* B got the completion of the second call, a transfer of size 1 from A to B
C10_Witness ==
    \E i \in DataCalls :
        /\ i = 2
        /\ calls[i].rec = Data(2, "A", "B", 1, "B")
        /\ \E j \in LogOf("recv", "DataTransferCompleted", 2) :
            log[j].to = "B" /\ log[j].body = Data(2, "A", "B", 1, "B")

\* C11: a message sent with send_msg or send_msg_from_sim gets exactly one
\* MessageDelivery, addressed to its dest, and the record at the Sent, Received
\* and Delivered stages is the one the call built: the returned id, the sender,
\* dest and the payload.
C11_OneDeliveryToDest ==
    \A i \in MsgCalls :
        LET id == calls[i].id
            emitted == LogOf("emit", "MessageDelivery", id)
            received == LogOf("recv", "MessageDelivery", id)
            pending == QueueOf("MessageDelivery", id)
            waiting == QueueOf("MessageSend", id) \cup QueueOf("MessageReceive", id)
        IN /\ calls[i].rec = Message(id, calls[i].src, calls[i].dest, calls[i].rec.data)
           /\ calls[i].op = "send_msg" => calls[i].rec.src = calls[i].caller
           /\ Cardinality(emitted) + Cardinality(waiting) = 1
           /\ Cardinality(received) + Cardinality(pending) = Cardinality(emitted)
           /\ \A j \in emitted \cup received : log[j].to = calls[i].dest
           /\ \A j \in pending : queue[j].dest = calls[i].dest
           /\ \A j \in 1..Len(log) :
                (log[j].what \in MsgWhats /\ log[j].body.id = id) => log[j].body = calls[i].rec
           /\ \A j \in 1..Len(queue) :
                (queue[j].type \in MsgWhats /\ queue[j].body.id = id)
                    => queue[j].body = calls[i].rec

\* B, and only B, got the one delivery of the message A sent it with send_msg
C11_Witness ==
    \E i \in MsgCalls :
        /\ calls[i].op = "send_msg" /\ calls[i].caller = "A" /\ calls[i].dest = "B"
        /\ \E j \in LogOf("recv", "MessageDelivery", calls[i].id) :
            log[j].to = "B" /\ log[j].body = Message(calls[i].id, "A", "B", "ping")
        /\ queue = <<>>

\* C14: of two messages with the same source and the same destination, the one
\* sent first is delivered first.
C14_SendOrderKept ==
    \A i \in MsgCalls : \A j \in MsgCalls :
        (i < j /\ calls[i].src = calls[j].src /\ calls[i].dest = calls[j].dest) =>
            \A rj \in LogOf("recv", "MessageDelivery", calls[j].id) :
                \E ri \in LogOf("recv", "MessageDelivery", calls[i].id) : ri < rj

\* with a latency above zero, two messages A sent to B at the same time were
\* both delivered
C14_Witness ==
    /\ latency(network_model) > 0
    /\ Len(calls) = 2
    /\ calls[1].op \in MsgOps /\ calls[2].op \in MsgOps
    /\ calls[1].src = "A" /\ calls[2].src = "A"
    /\ calls[1].dest = "B" /\ calls[2].dest = "B"
    /\ calls[1].time = calls[2].time
    /\ LogOf("recv", "MessageDelivery", calls[1].id) # {}
    /\ LogOf("recv", "MessageDelivery", calls[2].id) # {}

\* the sequence q without its k-th element
Without(q, k) == SubSeq(q, 1, k - 1) \o SubSeq(q, k + 1, Len(q))

\* C12: a call of send_msg, send_msg_from_sim, transfer_data or
\* transfer_data_from_sim takes one id off the counter, returns it, and adds to
\* the queue exactly one event: the MessageSend or DataTransferRequest that
\* carries the record with that id, addressed to the network actor and due at
\* the current time; the clock, the network model and what the actors have
\* received stay as they were.
C12_CallQueuesFirstEvent ==
    [][(Len(calls') = Len(calls) + 1 /\ calls'[Len(calls')].op \in MsgOps \cup DataOps) =>
        LET c == calls'[Len(calls')]
            first == IF c.op \in MsgOps THEN "MessageSend" ELSE "DataTransferRequest"
        IN /\ c.id = id_counter
           /\ id_counter' = id_counter + 1
           /\ c.time = time
           /\ \E k \in 1..Len(queue') :
                /\ queue'[k].type = first
                /\ queue'[k].dest = NETWORK_ID
                /\ queue'[k].time = time
                /\ queue'[k].body = c.rec
                /\ queue'[k].body.id = c.id
                /\ Without(queue', k) = queue
           /\ time' = time
           /\ network_model' = network_model
           /\ log' = log
      ]_vars

\* a transfer_data call made while a message was on its way left its
\* DataTransferRequest in the queue, due at the time of the call
C12_Witness ==
    /\ Len(calls) = 2
    /\ calls[1].op = "send_msg"
    /\ calls[2].op = "transfer_data"
    /\ calls[2].time > 0
    /\ \E k \in QueueOf("DataTransferRequest", calls[2].id) :
        /\ queue[k].time = calls[2].time
        /\ queue[k].dest = NETWORK_ID
        /\ queue[k].body = calls[2].rec

\* a record without its id
Unnumbered(rec) == [f \in DOMAIN rec \ {"id"} |-> rec[f]]

\* what happened to the record of call number i, in log order: each stage with
\* its recipient, its time counted from the call, and the record without its id
Lifecycle(i) ==
    LET whats == IF calls[i].op \in MsgOps THEN MsgWhats ELSE DataWhats
        mine == SelectSeq(log, LAMBDA e : e.what \in whats /\ e.body.id = calls[i].id)
    IN [n \in 1..Len(mine) |->
            <<mine[n].kind, mine[n].what, mine[n].to, mine[n].time - calls[i].time,
              Unnumbered(mine[n].body)>>]

\* the number of ids handed out up to and including call number i
IdsUpTo(i) == Cardinality({j \in MsgCalls \cup DataCalls : j <= i})

\* C13: a call of send_msg_from_sim or transfer_data_from_sim returns the id the
\* counter held, as send_msg and transfer_data do, and for the same source,
\* destination and payload, size and notification_dest the two records go
\* through the same stages, with the same recipients, at the same time after
\* their calls.
C13_FromSimSameAsCtx ==
    /\ \A i \in MsgCalls \cup DataCalls : calls[i].id = IdsUpTo(i)
    /\ \A i \in MsgCalls \cup DataCalls : \A j \in MsgCalls \cup DataCalls :
        ( /\ <<calls[i].op, calls[j].op>> \in
                {<<"send_msg", "send_msg_from_sim">>,
                 <<"transfer_data", "transfer_data_from_sim">>}
          /\ Unnumbered(calls[i].rec) = Unnumbered(calls[j].rec) )
            => LET a == Lifecycle(i)
                   b == Lifecycle(j)
               IN IsPrefix(a, b) \/ IsPrefix(b, a)

\* with a latency above zero, the same transfer of size 1 was asked for with
\* transfer_data_from_sim and then, later, with transfer_data, and the two went
\* through all the stages alike
C13_Witness ==
    /\ latency(network_model) > 0
    /\ Len(calls) = 2
    /\ calls[1].op = "transfer_data_from_sim" /\ calls[2].op = "transfer_data"
    /\ calls[1].time < calls[2].time
    /\ calls[1].rec.size = 1
    /\ Unnumbered(calls[1].rec) = Unnumbered(calls[2].rec)
    /\ Len(Lifecycle(1)) = Len(FullDataTrace)
    /\ Lifecycle(1) = Lifecycle(2)

\* C15: an actor has at most one binding, get_actor_host gives the host of the
\* most recent set_actor_host call for the actor (none without a call), also
\* for a host name never given to add_host, and get_hosts lists the names given
\* to add_host and no other.
C15_LastBindingWins ==
    /\ \A a \in Actors :
        /\ Len(get_actor_host(actor_hosts, a)) <= 1
        /\ get_actor_host(actor_hosts, a) =
                (IF a \in DOMAIN setup.bound THEN <<setup.bound[a]>> ELSE <<>>)
    /\ Range(get_hosts(hosts)) = setup.added
    /\ Len(get_hosts(hosts)) = Cardinality(setup.added)

\* only H1 was added; A is bound to H2, which was never added, and B to H1
C15_Witness ==
    /\ setup.added = {"H1"}
    /\ get_hosts(hosts) = <<"H1">>
    /\ get_actor_host(actor_hosts, "A") = <<"H2">>
    /\ get_actor_host(actor_hosts, "B") = <<"H1">>

\* the model took the transfer in with send_data and caused no DataReceive for it
Lost(id) ==
    /\ LogOf("call", "send_data", id) # {}
    /\ QueueOf("DataReceive", id) = {}
    /\ LogOf("on", "DataReceive", id) = {}

\* C16: for a transfer whose arrival the model never causes, receive_data is
\* not called and no DataTransferCompleted is emitted; and when the queue has
\* run empty, every message and event of the run was delivered and every other
\* transfer that was started was completed, each once.
C16_LostTransferIsSilent ==
    /\ \A i \in DataCalls :
        Lost(calls[i].id) =>
            /\ LogOf("call", "receive_data", calls[i].id) = {}
            /\ LogOf("emit", "DataTransferCompleted", calls[i].id) = {}
            /\ LogOf("recv", "DataTransferCompleted", calls[i].id) = {}
            /\ QueueOf("DataTransferCompleted", calls[i].id) = {}
    /\ queue = <<>> =>
        /\ \A i \in MsgCalls :
            Cardinality(LogOf("recv", "MessageDelivery", calls[i].id)) = 1
        /\ \A i \in EventCalls : Cardinality(AppReceived(i)) = 1
        /\ \A i \in DataCalls :
            ~Lost(calls[i].id) =>
                Cardinality(LogOf("recv", "DataTransferCompleted", calls[i].id)) = 1

\* with a latency above zero the queue has run empty; the first call was a
\* transfer the model lost, the second a message A sent after the transfer was
\* started, and B got it
C16_Witness ==
    /\ latency(network_model) > 0
    /\ queue = <<>>
    /\ Len(calls) = 2
    /\ calls[1].op \in DataOps /\ calls[2].op = "send_msg"
    /\ Lost(calls[1].id)
    /\ \E j \in LogOf("call", "send_data", calls[1].id) : log[j].time <= calls[2].time
    /\ \E j \in LogOf("recv", "MessageDelivery", calls[2].id) : log[j].to = "B"

\* the pending events about the transfer id
DataPending(id) ==
    {k \in 1..Len(queue) : queue[k].type \in DataWhats /\ queue[k].body.id = id}

\* C17: the DataTransferRequest of a transfer is handled at the time of the
\* call and its StartDataTransfer is due, and handled, exactly one latency()
\* later, whether or not src and dest are bound to the same host; once
\* StartDataTransfer is handled, the only event about the transfer is the
\* DataReceive the model scheduled, at the time the model chose.
C17_StartAfterOneLatency ==
    \A i \in DataCalls :
        LET id == calls[i].id
            start == calls[i].time + latency(network_model)
        IN /\ \A j \in LogOf("on", "DataTransferRequest", id) : log[j].time = calls[i].time
           /\ \A k \in QueueOf("StartDataTransfer", id) :
                queue[k].time = start /\ queue[k].dest = NETWORK_ID
           /\ \A j \in LogOf("on", "StartDataTransfer", id) : log[j].time = start
           /\ Cardinality(DataPending(id)) <= 1
           /\ (LogOf("on", "StartDataTransfer", id) # {} /\ LogOf("on", "DataReceive", id) = {})
                => \A k \in DataPending(id) :
                    /\ queue[k].type = "DataReceive"
                    /\ queue[k].from = NETWORK_ID
                    /\ queue[k].time = start + TransferTime(calls[i].rec.size)

\* with a latency above zero, a transfer of size 1 between A and B, both bound
\* to H1, was started one latency() after the call and its arrival is pending
C17_Witness ==
    /\ latency(network_model) > 0
    /\ \E i \in DataCalls :
        /\ calls[i].colocated
        /\ get_actor_host(actor_hosts, "A") = <<"H1">>
        /\ get_actor_host(actor_hosts, "B") = <<"H1">>
        /\ calls[i].rec.size = 1
        /\ \E j \in LogOf("on", "StartDataTransfer", calls[i].id) :
            log[j].time = calls[i].time + latency(network_model)
        /\ QueueOf("DataReceive", calls[i].id) # {}

\* the pending events about the message or transfer id
PendingAbout(id) ==
    {k \in 1..Len(queue) :
        queue[k].type \in MsgWhats \cup DataWhats /\ queue[k].body.id = id}

\* the log entries about the message or transfer id
LogAbout(id) ==
    SelectSeq(log, LAMBDA e : e.what \in MsgWhats \cup DataWhats /\ e.body.id = id)

\* the final event of the lifecycle of id was received by an actor
Done(id) ==
    \/ LogOf("recv", "MessageDelivery", id) # {}
    \/ LogOf("recv", "DataTransferCompleted", id) # {}

\* C18: while the simulation keeps stepping, the event queue runs empty again
\* and again, and whenever it is empty every message sent was received as
\* MessageDelivery, every transfer requested was handed to the model, and every
\* transfer whose arrival the model scheduled was received as
\* DataTransferCompleted; once the final event of an id was received, no event
\* about that id is pending and nothing more is ever handled, called, emitted
\* or received for it.
C18_EveryLifecycleEnds ==
    /\ []<>(queue = <<>>)
    /\ [](queue = <<>> =>
            /\ \A i \in MsgCalls : LogOf("recv", "MessageDelivery", calls[i].id) # {}
            /\ \A i \in DataCalls :
                /\ LogOf("call", "send_data", calls[i].id) # {}
                /\ LogOf("on", "DataReceive", calls[i].id) # {}
                    => LogOf("recv", "DataTransferCompleted", calls[i].id) # {})
    /\ [](\A id \in 1..MaxOps : Done(id) => PendingAbout(id) = {})
    /\ [][\A id \in 1..MaxOps : Done(id) => LogAbout(id)' = LogAbout(id)]_vars

\* a message and a transfer both ended, over a latency above zero, the message
\* after four log entries and the transfer after seven, and nothing is pending
C18_Witness ==
    /\ latency(network_model) > 0
    /\ queue = <<>>
    /\ \E i \in MsgCalls : Done(calls[i].id) /\ Len(LogAbout(calls[i].id)) = 4
    /\ \E i \in DataCalls : Done(calls[i].id) /\ Len(LogAbout(calls[i].id)) = 7

\* the step is one event handled by the network actor
HandlerStep ==
    /\ Len(log') > Len(log)
    /\ log'[Len(log) + 1].kind = "on"

\* the event types the network actor handled so far
Handled == {log[j].what : j \in {k \in 1..Len(log) : log[k].kind = "on"}}

\* C19: a step in which the network actor handles an event leaves the host
\* set, the actor-host bindings and the id counter as they were, and records
\* no call; of the network's state it can change only the network model's
\* transfers in flight, besides the pending events and the clock.
C19_HandlersKeepRegistry ==
    [][HandlerStep =>
        /\ hosts' = hosts
        /\ actor_hosts' = actor_hosts
        /\ id_counter' = id_counter
        /\ network_model'.latency = network_model.latency
        /\ calls' = calls
        /\ setup' = setup]_vars

\* with a host added, an actor bound and two ids taken, all five event types
\* were handled and the registry and the counter are as the calls left them
C19_Witness ==
    /\ get_hosts(hosts) # <<>>
    /\ DOMAIN actor_hosts # {}
    /\ id_counter = 3
    /\ Handled = {"MessageSend", "MessageReceive", "DataTransferRequest",
                  "StartDataTransfer", "DataReceive"}
    /\ queue = <<>>

\* the ids returned so far
Returned == {calls[i].id : i \in MsgCalls \cup DataCalls}

\* C20: the ids returned are 1, 2, ..., k for the k calls of send_msg,
\* send_msg_from_sim, transfer_data and transfer_data_from_sim made so far, the
\* n-th of these calls returned n and numbered its record n, and the counter
\* holds k + 1, whatever send_event calls, registry operations and handled
\* events came before, between or after them.
C20_IdsConsecutiveFromOne ==
    LET k == Cardinality(MsgCalls \cup DataCalls)
    IN /\ id_counter = k + 1
       /\ Returned = 1..k
       /\ \A i \in MsgCalls \cup DataCalls :
            /\ calls[i].id = Cardinality({j \in MsgCalls \cup DataCalls : j < i}) + 1
            /\ calls[i].rec.id = calls[i].id
       /\ \A i \in EventCalls : calls[i].id = 0

\* after a host was added and an actor bound, a send_event call came first and
\* the send_msg_from_sim call after it returned 1; its message went through
\* both handlers and the counter holds 2
C20_Witness ==
    /\ get_hosts(hosts) # <<>>
    /\ DOMAIN actor_hosts # {}
    /\ Len(calls) = 2
    /\ calls[1].op = "send_event"
    /\ calls[2].op = "send_msg_from_sim"
    /\ calls[2].id = 1
    /\ LogOf("on", "MessageSend", 1) # {}
    /\ LogOf("on", "MessageReceive", 1) # {}
    /\ id_counter = 2
====
